---- MODULE Spec2Model ----
(***************************************************************************)
(* Model of the propertize library (src/propertize.js): named wrappers     *)
(* around Object.defineProperty.  The state is a small heap of objects,    *)
(* each holding property descriptors, the closures the layering definers   *)
(* (validated / normalized / triggered) allocate, and the state of the     *)
(* caller's own callback functions.  Every library function is an operator *)
(* from a store to a store and an error flag; every action is one call of  *)
(* a library function or one plain read / assignment / delete made by the  *)
(* calling program.                                                        *)
(***************************************************************************)
EXTENDS Integers, Sequences, FiniteSets, TLC

(* ------------------------------------------------------------------ *)
(* Bounds                                                              *)
(* ------------------------------------------------------------------ *)

\* number of calls / assignments / deletes in one run
MaxCalls == 2

\* number of calls / assignments in one run of the layering program
MaxLayerCalls == 4

(* ------------------------------------------------------------------ *)
(* Values, functions, descriptors                                      *)
(* ------------------------------------------------------------------ *)

Undefined == "undefined"

\* values the calling program assigns and passes to value
InputValues == {Undefined, "1", "FOO"}

\* values the calling program passes to the definers
DefineValues == {Undefined, "1"}

\* all values that can be stored ("foo" is what the normalizer makes of "FOO")
Values == InputValues \cup {"foo"}

\* the objects of the heap that own slots
Objects == {"obj", "proto", "F", "Fp", "inst", "inst2", "bare"}

\* Object.prototype, Function.prototype and the end of every chain
Root == "Object.prototype"
FunctionPrototype == "Function.prototype"
Null == "null"

\* slot names
Slots == {"a"}

\* a name that only Object.prototype owns
RootSlots == {"hasOwnProperty"}

\* a function value: none (undefined), a function of the caller, or the
\* getter / setter closure number env of a layering definer
NoFn == [kind |-> "none", id |-> "", env |-> 0]
UserFn(name) == [kind |-> "user", id |-> name, env |-> 0]
LayerGet(i) == [kind |-> "lget", id |-> "", env |-> i]
LayerSet(i) == [kind |-> "lset", id |-> "", env |-> i]

\* the caller's functions
getCell == UserFn("getCell")
setCell == UserFn("setCell")
deriveFn == UserFn("derive")

\* a descriptor object: has lists the fields that are present
MkDesc(h, c, e, w, v, g, s) ==
    [has |-> h, configurable |-> c, enumerable |-> e, writable |-> w,
     value |-> v, get |-> g, set |-> s]

\* no descriptor (undefined)
NoDesc == MkDesc({}, FALSE, FALSE, FALSE, Undefined, NoFn, NoFn)

DataFields == {"configurable", "enumerable", "writable", "value"}
AccessorFields == {"configurable", "enumerable", "get", "set"}

\* the own descriptor of a stored value-slot / accessor-slot
DataProp(c, e, w, v) == MkDesc(DataFields, c, e, w, v, NoFn, NoFn)
AccessorProp(c, e, g, s) == MkDesc(AccessorFields, c, e, FALSE, Undefined, g, s)

Defined(d) == d.has # {}
IsData(d) == "value" \in d.has \/ "writable" \in d.has
IsAccessor(d) == "get" \in d.has \/ "set" \in d.has

\* assignment to / deletion of a field of a descriptor object
WithField(d, f, x) ==
    CASE f = "configurable" -> [d EXCEPT !.has = @ \cup {f}, !.configurable = x]
      [] f = "enumerable" -> [d EXCEPT !.has = @ \cup {f}, !.enumerable = x]
      [] f = "writable" -> [d EXCEPT !.has = @ \cup {f}, !.writable = x]
      [] f = "value" -> [d EXCEPT !.has = @ \cup {f}, !.value = x]
      [] f = "get" -> [d EXCEPT !.has = @ \cup {f}, !.get = x]
      [] f = "set" -> [d EXCEPT !.has = @ \cup {f}, !.set = x]

WithoutField(d, f) ==
    CASE f = "get" -> [d EXCEPT !.has = @ \ {f}, !.get = NoFn]
      [] f = "set" -> [d EXCEPT !.has = @ \ {f}, !.set = NoFn]

(* ------------------------------------------------------------------ *)
(* The runtime: prototype chain and own descriptors                    *)
(* ------------------------------------------------------------------ *)

\* Object.getPrototypeOf
getPrototypeOf(o) ==
    CASE o = "obj" -> "proto"
      [] o = "proto" -> Root
      [] o = "F" -> FunctionPrototype
      [] o = "Fp" -> Root
      [] o = "inst" -> "Fp"
      [] o = "inst2" -> "Fp"
      [] o = FunctionPrototype -> Root
      [] o = "bare" -> Null
      [] OTHER -> Null

\* typeof o === "function"
IsFunction(o) == o = "F"

\* o.prototype of a function
PrototypeProperty(o) == "Fp"

\* Object.getOwnPropertyDescriptor
getOwnPropertyDescriptor(h, o, p) ==
    IF o \in DOMAIN h
    THEN IF p \in DOMAIN h[o] THEN h[o][p] ELSE NoDesc
    ELSE IF o = Root /\ p \in RootSlots
         THEN DataProp(TRUE, FALSE, TRUE, "function")
    ELSE NoDesc

\* a ToPropertyDescriptor that lets every descriptor object pass
ToPropertyDescriptorFails_never(Desc) == FALSE

\* the part of ToPropertyDescriptor that can fail here: a descriptor object
\* with both an accessor field and a value or writable field is a TypeError
ToPropertyDescriptorFails(Desc) == IsAccessor(Desc) /\ IsData(Desc)

\* the property a descriptor creates on an object that has none: absent
\* fields take their default (false, undefined)
CreateProp(Desc) ==
    IF IsAccessor(Desc)
    THEN AccessorProp(Desc.configurable, Desc.enumerable, Desc.get, Desc.set)
    ELSE DataProp(Desc.configurable, Desc.enumerable, Desc.writable, Desc.value)

\* the rejection rules without the rule that protects the value and the
\* writable flag of a non-writable, non-configurable value-slot
RedefinitionRejected_valueUnchecked(cur, Desc) ==
    \/ /\ ~cur.configurable
       /\ \/ "configurable" \in Desc.has /\ Desc.configurable
          \/ "enumerable" \in Desc.has /\ Desc.enumerable # cur.enumerable
    \/ /\ ~cur.configurable
       /\ IsData(Desc) \/ IsAccessor(Desc)
       /\ IsData(cur) # IsData(Desc)
    \/ /\ ~cur.configurable
       /\ IsAccessor(cur) /\ IsAccessor(Desc)
       /\ \/ "set" \in Desc.has /\ Desc.set # cur.set
          \/ "get" \in Desc.has /\ Desc.get # cur.get

\* the runtime's rejection rules for redefining an existing property
RedefinitionRejected(cur, Desc) ==
    \/ /\ ~cur.configurable
       /\ \/ "configurable" \in Desc.has /\ Desc.configurable
          \/ "enumerable" \in Desc.has /\ Desc.enumerable # cur.enumerable
    \/ /\ ~cur.configurable
       /\ IsData(Desc) \/ IsAccessor(Desc)
       /\ IsData(cur) # IsData(Desc)
    \/ /\ ~cur.configurable
       /\ IsData(cur) /\ IsData(Desc)
       /\ ~cur.writable
       /\ \/ "writable" \in Desc.has /\ Desc.writable
          \/ "value" \in Desc.has /\ Desc.value # cur.value
    \/ /\ ~cur.configurable
       /\ IsAccessor(cur) /\ IsAccessor(Desc)
       /\ \/ "set" \in Desc.has /\ Desc.set # cur.set
          \/ "get" \in Desc.has /\ Desc.get # cur.get

\* the existing property after a change of shape: configurable and
\* enumerable are kept, the other attributes take their defaults
Converted(cur, Desc) ==
    IF (IsData(Desc) \/ IsAccessor(Desc)) /\ IsData(cur) # IsData(Desc)
    THEN IF IsData(cur)
         THEN AccessorProp(cur.configurable, cur.enumerable, NoFn, NoFn)
         ELSE DataProp(cur.configurable, cur.enumerable, FALSE, Undefined)
    ELSE cur

\* every field present in Desc overwrites the attribute of the property
Merged(cur, Desc) ==
    [has |-> cur.has,
     configurable |-> IF "configurable" \in Desc.has THEN Desc.configurable ELSE cur.configurable,
     enumerable |-> IF "enumerable" \in Desc.has THEN Desc.enumerable ELSE cur.enumerable,
     writable |-> IF "writable" \in Desc.has THEN Desc.writable ELSE cur.writable,
     value |-> IF "value" \in Desc.has THEN Desc.value ELSE cur.value,
     get |-> IF "get" \in Desc.has THEN Desc.get ELSE cur.get,
     set |-> IF "set" \in Desc.has THEN Desc.set ELSE cur.set]

\* [[DefineOwnProperty]]: the new own property, or a rejection
DefineOwnProperty(cur, Desc) ==
    IF ~Defined(cur) THEN [ok |-> TRUE, prop |-> CreateProp(Desc)]
    ELSE IF Desc.has = {} THEN [ok |-> TRUE, prop |-> cur]
    ELSE IF RedefinitionRejected(cur, Desc) THEN [ok |-> FALSE, prop |-> cur]
    ELSE [ok |-> TRUE, prop |-> Merged(Converted(cur, Desc), Desc)]

\* Object.defineProperty that applies the descriptor whatever the current
\* property allows
defineProperty_neverRejects(st, o, p, Desc) ==
    IF o \notin DOMAIN st.heap \/ ToPropertyDescriptorFails(Desc)
    THEN [st |-> st, err |-> TRUE]
    ELSE [st |-> [st EXCEPT !.heap[o][p] =
                      IF Defined(st.heap[o][p])
                      THEN Merged(Converted(st.heap[o][p], Desc), Desc)
                      ELSE CreateProp(Desc)],
          err |-> FALSE]

\* Object.defineProperty that applies what it can before it throws
defineProperty_appliesThenThrows(st, o, p, Desc) ==
    IF o \notin DOMAIN st.heap \/ ToPropertyDescriptorFails(Desc)
    THEN [st |-> st, err |-> TRUE]
    ELSE LET r == DefineOwnProperty(st.heap[o][p], Desc)
         IN  IF r.ok
             THEN [st |-> [st EXCEPT !.heap[o][p] = r.prop], err |-> FALSE]
             ELSE [st |-> [st EXCEPT !.heap[o][p].enumerable =
                              IF "enumerable" \in Desc.has
                              THEN Desc.enumerable ELSE @],
                   err |-> TRUE]

\* Object.defineProperty(o, p, Desc): a rejection is a TypeError
defineProperty(st, o, p, Desc) ==
    IF o \notin DOMAIN st.heap \/ ToPropertyDescriptorFails(Desc)
    THEN [st |-> st, err |-> TRUE]
    ELSE LET r == DefineOwnProperty(st.heap[o][p], Desc)
         IN  IF r.ok
             THEN [st |-> [st EXCEPT !.heap[o][p] = r.prop], err |-> FALSE]
             ELSE [st |-> st, err |-> TRUE]

\* the property a read or an assignment of o[p] finds: the first own
\* property on the chain of o, Object.prototype included
RECURSIVE Lookup(_, _, _)
Lookup(h, o, p) ==
    IF o = Null THEN NoDesc
    ELSE IF Defined(getOwnPropertyDescriptor(h, o, p))
         THEN getOwnPropertyDescriptor(h, o, p)
         ELSE Lookup(h, getPrototypeOf(o), p)

(* ------------------------------------------------------------------ *)
(* Calling functions.  A store st is [heap, envs, cell, log]:          *)
(*   heap  the own properties of every object                          *)
(*   envs  the closures of the layering definers: the captured val,    *)
(*         the captured prior descriptor's get / set, the callback     *)
(*   cell  the variable the caller's getCell / setCell close over      *)
(*   log   the calls of caller functions made in the current step      *)
(* ------------------------------------------------------------------ *)

LogEntry(f, this, x, y) == [fn |-> f, this |-> this, arg |-> x, old |-> y]

\* the test (result === true) of the validated setter, and the test
\* if (result) in its place
IsTrue_truthy(r) == r \notin {"false", Undefined}

IsTrue(r) == r = "true"

\* the caller's validators: isNumber is (typeof val === "number"), truthy
\* returns its argument (a value that is never the boolean true)
Validate(f, v) ==
    CASE f = "isNumber" -> IF v = "1" THEN "true" ELSE "false"
      [] f = "truthy" -> v
      [] OTHER -> "true"

\* the caller's normalizer: lower-cases strings
Normalize(f, v) == IF v = "FOO" THEN "foo" ELSE v

\* calling a getter with receiver this
RECURSIVE CallGet(_, _, _)
CallGet(st, fn, this) ==
    CASE fn.kind = "none" -> Undefined
      [] fn.kind = "user" -> st.cell
      [] fn.kind = "lget" ->
            \* desc.get ? desc.get.call(this) : val
            IF st.envs[fn.env].dget # NoFn
            THEN CallGet(st, st.envs[fn.env].dget, this)
            ELSE st.envs[fn.env].val
      [] OTHER -> Undefined

\* calling a setter with receiver this and argument v: the new store
RECURSIVE CallSet(_, _, _, _)

\* the setters, the one of triggered calling back before the prior setter
CallSet_callbackFirst(st, fn, this, v) ==
    CASE fn.kind = "user" ->
            [st EXCEPT !.cell = v,
                       !.log = Append(@, LogEntry(fn.id, this, v, Undefined))]
      [] fn.kind = "lset" ->
            LET env == st.envs[fn.env]
            IN  CASE env.kind = "validated" ->
                       LET st1 == [st EXCEPT !.log = Append(@, LogEntry(env.fn, this, v, Undefined))]
                       IN  IF IsTrue(Validate(env.fn, v))
                           THEN LET st2 == [st1 EXCEPT !.envs[fn.env].val = v]
                                IN  IF env.dset # NoFn
                                    THEN CallSet(st2, env.dset, this, v)
                                    ELSE st2
                           ELSE st1
                  [] env.kind = "normalized" ->
                       LET st1 == [st EXCEPT !.log = Append(@, LogEntry(env.fn, this, v, Undefined))]
                           nv == Normalize(env.fn, v)
                       IN  IF env.dset # NoFn
                           THEN CallSet(st1, env.dset, this, nv)
                           ELSE [st1 EXCEPT !.envs[fn.env].val = nv]
                  [] env.kind = "triggered" ->
                       LET oldval == env.val
                           st1 == [st EXCEPT !.envs[fn.env].val = v,
                                             !.log = Append(@, LogEntry(env.fn, this, v, oldval))]
                       IN  IF env.dset # NoFn
                           THEN CallSet(st1, env.dset, this, v)
                           ELSE st1
                  [] OTHER -> st
      [] OTHER -> st

\* the setters, the one of triggered calling back only when the value differs
CallSet_silentWhenSame(st, fn, this, v) ==
    CASE fn.kind = "user" ->
            [st EXCEPT !.cell = v,
                       !.log = Append(@, LogEntry(fn.id, this, v, Undefined))]
      [] fn.kind = "lset" ->
            LET env == st.envs[fn.env]
            IN  CASE env.kind = "validated" ->
                       LET st1 == [st EXCEPT !.log = Append(@, LogEntry(env.fn, this, v, Undefined))]
                       IN  IF IsTrue(Validate(env.fn, v))
                           THEN LET st2 == [st1 EXCEPT !.envs[fn.env].val = v]
                                IN  IF env.dset # NoFn
                                    THEN CallSet(st2, env.dset, this, v)
                                    ELSE st2
                           ELSE st1
                  [] env.kind = "normalized" ->
                       LET st1 == [st EXCEPT !.log = Append(@, LogEntry(env.fn, this, v, Undefined))]
                           nv == Normalize(env.fn, v)
                       IN  IF env.dset # NoFn
                           THEN CallSet(st1, env.dset, this, nv)
                           ELSE [st1 EXCEPT !.envs[fn.env].val = nv]
                  [] env.kind = "triggered" ->
                       LET oldval == env.val
                           st1 == [st EXCEPT !.envs[fn.env].val = v]
                           st2 == IF env.dset # NoFn
                                  THEN CallSet(st1, env.dset, this, v)
                                  ELSE st1
                       IN  IF v = oldval THEN st2
                           ELSE [st2 EXCEPT !.log = Append(@, LogEntry(env.fn, this, v, oldval))]
                  [] OTHER -> st
      [] OTHER -> st

\* the setters, the one of normalized handing the raw value to the prior setter
CallSet_rawToPriorSetter(st, fn, this, v) ==
    CASE fn.kind = "user" ->
            [st EXCEPT !.cell = v,
                       !.log = Append(@, LogEntry(fn.id, this, v, Undefined))]
      [] fn.kind = "lset" ->
            LET env == st.envs[fn.env]
            IN  CASE env.kind = "validated" ->
                       LET st1 == [st EXCEPT !.log = Append(@, LogEntry(env.fn, this, v, Undefined))]
                       IN  IF IsTrue(Validate(env.fn, v))
                           THEN LET st2 == [st1 EXCEPT !.envs[fn.env].val = v]
                                IN  IF env.dset # NoFn
                                    THEN CallSet(st2, env.dset, this, v)
                                    ELSE st2
                           ELSE st1
                  [] env.kind = "normalized" ->
                       LET st1 == [st EXCEPT !.log = Append(@, LogEntry(env.fn, this, v, Undefined))]
                           nv == Normalize(env.fn, v)
                       IN  IF env.dset # NoFn
                           THEN CallSet(st1, env.dset, this, v)
                           ELSE [st1 EXCEPT !.envs[fn.env].val = nv]
                  [] env.kind = "triggered" ->
                       LET oldval == env.val
                           st1 == [st EXCEPT !.envs[fn.env].val = v]
                           st2 == IF env.dset # NoFn
                                  THEN CallSet(st1, env.dset, this, v)
                                  ELSE st1
                       IN  [st2 EXCEPT !.log = Append(@, LogEntry(env.fn, this, v, oldval))]
                  [] OTHER -> st
      [] OTHER -> st

CallSet(st, fn, this, v) ==
    CASE fn.kind = "user" ->
            [st EXCEPT !.cell = v,
                       !.log = Append(@, LogEntry(fn.id, this, v, Undefined))]
      [] fn.kind = "lset" ->
            LET env == st.envs[fn.env]
            IN  CASE env.kind = "validated" ->
                       LET st1 == [st EXCEPT !.log = Append(@, LogEntry(env.fn, this, v, Undefined))]
                       IN  IF IsTrue(Validate(env.fn, v))
                           THEN LET st2 == [st1 EXCEPT !.envs[fn.env].val = v]
                                IN  IF env.dset # NoFn
                                    THEN CallSet(st2, env.dset, this, v)
                                    ELSE st2
                           ELSE st1
                  [] env.kind = "normalized" ->
                       LET st1 == [st EXCEPT !.log = Append(@, LogEntry(env.fn, this, v, Undefined))]
                           nv == Normalize(env.fn, v)
                       IN  IF env.dset # NoFn
                           THEN CallSet(st1, env.dset, this, nv)
                           ELSE [st1 EXCEPT !.envs[fn.env].val = nv]
                  [] env.kind = "triggered" ->
                       LET oldval == env.val
                           st1 == [st EXCEPT !.envs[fn.env].val = v]
                           st2 == IF env.dset # NoFn
                                  THEN CallSet(st1, env.dset, this, v)
                                  ELSE st1
                       IN  [st2 EXCEPT !.log = Append(@, LogEntry(env.fn, this, v, oldval))]
                  [] OTHER -> st
      [] OTHER -> st

\* reading o[p]
Get(st, o, p) ==
    LET d == Lookup(st.heap, o, p)
    IN  IF ~Defined(d) THEN Undefined
        ELSE IF IsAccessor(d) THEN CallGet(st, d.get, o)
        ELSE d.value

\* the plain assignment o[p] = v outside strict mode: a rejected write
\* is ignored
Put(st, o, p, v) ==
    LET d == Lookup(st.heap, o, p)
        own == getOwnPropertyDescriptor(st.heap, o, p)
    IN  IF Defined(d) /\ IsAccessor(d)
        THEN IF d.set = NoFn THEN st ELSE CallSet(st, d.set, o, v)
        ELSE IF Defined(d) /\ ~d.writable THEN st
        ELSE IF ~Defined(own)
             THEN [st EXCEPT !.heap[o][p] = DataProp(TRUE, TRUE, TRUE, v)]
        ELSE IF IsAccessor(own) \/ ~own.writable THEN st
        ELSE [st EXCEPT !.heap[o][p].value = v]

\* delete o[p]: the new store and the value of the delete expression
Delete(st, o, p) ==
    LET own == getOwnPropertyDescriptor(st.heap, o, p)
    IN  IF ~Defined(own) THEN [st |-> st, ok |-> TRUE]
        ELSE IF own.configurable
             THEN [st |-> [st EXCEPT !.heap[o][p] = NoDesc], ok |-> TRUE]
        ELSE [st |-> st, ok |-> FALSE]

\* the names a for-in loop over o visits: own enumerable names, then the
\* names of the prototype that no own property shadows
RECURSIVE ForIn(_, _)
ForIn(h, o) ==
    IF o \notin DOMAIN h THEN {}
    ELSE {p \in Slots : Defined(h[o][p]) /\ h[o][p].enumerable}
         \cup {p \in ForIn(h, getPrototypeOf(o)) : ~Defined(h[o][p])}

(* ------------------------------------------------------------------ *)
(* The library (src/propertize.js).  Every function returns the new    *)
(* store and whether it threw.                                         *)
(* ------------------------------------------------------------------ *)

Ok(st) == [st |-> st, err |-> FALSE]
Threw(st) == [st |-> st, err |-> TRUE]

\* normalTarget without the typeof test: a function is used as it is
normalTarget_identity(target) == target

normalTarget(target) ==
    IF IsFunction(target) THEN PrototypeProperty(target) ELSE target

\* the loop of describe: desc is undefined while no own descriptor is found
\* and the next prototype is not Object.prototype; asking null for a
\* descriptor throws
RECURSIVE describeFrom(_, _, _)
describeFrom(h, proto, prop) ==
    IF proto = Null THEN [desc |-> NoDesc, err |-> TRUE]
    ELSE IF Defined(getOwnPropertyDescriptor(h, proto, prop))
         THEN [desc |-> getOwnPropertyDescriptor(h, proto, prop), err |-> FALSE]
    ELSE IF getPrototypeOf(proto) # Root
         THEN describeFrom(h, getPrototypeOf(proto), prop)
    ELSE [desc |-> NoDesc, err |-> FALSE]

describe(h, target, prop) == describeFrom(h, target, prop)

basic(st, target, prop, val, nargs) ==
    LET t == normalTarget(target)
        v == IF nargs < 3 THEN Get(st, t, prop) ELSE val
    IN  defineProperty(st, t, prop,
            [has |-> {"configurable", "enumerable", "writable", "value"},
             configurable |-> TRUE, enumerable |-> TRUE,
             writable |-> TRUE, value |-> v, get |-> NoFn, set |-> NoFn])

\* field that takes an undefined third argument for an omitted one
field_undefinedMeansOmitted(st, target, prop, val, nargs) ==
    LET t == normalTarget(target)
        v == IF val = Undefined THEN Get(st, t, prop) ELSE val
    IN  defineProperty(st, t, prop,
            [has |-> {"configurable", "enumerable", "writable", "value"},
             configurable |-> FALSE, enumerable |-> TRUE,
             writable |-> TRUE, value |-> v, get |-> NoFn, set |-> NoFn])

field(st, target, prop, val, nargs) ==
    LET t == normalTarget(target)
        v == IF nargs < 3 THEN Get(st, t, prop) ELSE val
    IN  defineProperty(st, t, prop,
            [has |-> {"configurable", "enumerable", "writable", "value"},
             configurable |-> FALSE, enumerable |-> TRUE,
             writable |-> TRUE, value |-> v, get |-> NoFn, set |-> NoFn])

\* hidden whose descriptor literal lacks the enumerable field
hidden_keepsEnumerable(st, target, prop, val, nargs) ==
    LET t == normalTarget(target)
        v == IF nargs < 3 THEN Get(st, t, prop) ELSE val
    IN  defineProperty(st, t, prop,
            [has |-> {"configurable", "writable", "value"},
             configurable |-> TRUE, enumerable |-> FALSE,
             writable |-> TRUE, value |-> v, get |-> NoFn, set |-> NoFn])

hidden(st, target, prop, val, nargs) ==
    LET t == normalTarget(target)
        v == IF nargs < 3 THEN Get(st, t, prop) ELSE val
    IN  defineProperty(st, t, prop,
            [has |-> {"configurable", "enumerable", "writable", "value"},
             configurable |-> TRUE, enumerable |-> FALSE,
             writable |-> TRUE, value |-> v, get |-> NoFn, set |-> NoFn])

readonly(st, target, prop, val, nargs) ==
    LET t == normalTarget(target)
        v == IF nargs < 3 THEN Get(st, t, prop) ELSE val
    IN  defineProperty(st, t, prop,
            [has |-> {"configurable", "enumerable", "writable", "value"},
             configurable |-> TRUE, enumerable |-> TRUE,
             writable |-> FALSE, value |-> v, get |-> NoFn, set |-> NoFn])

internal(st, target, prop, val, nargs) ==
    LET t == normalTarget(target)
        v == IF nargs < 3 THEN Get(st, t, prop) ELSE val
    IN  defineProperty(st, t, prop,
            [has |-> {"configurable", "enumerable", "writable", "value"},
             configurable |-> TRUE, enumerable |-> FALSE,
             writable |-> FALSE, value |-> v, get |-> NoFn, set |-> NoFn])

\* attribute with the writable flag of field
attribute_copyOfField(st, target, prop, val, nargs) ==
    LET t == normalTarget(target)
        v == IF nargs < 3 THEN Get(st, t, prop) ELSE val
    IN  defineProperty(st, t, prop,
            [has |-> {"configurable", "enumerable", "writable", "value"},
             configurable |-> FALSE, enumerable |-> TRUE,
             writable |-> TRUE, value |-> v, get |-> NoFn, set |-> NoFn])

attribute(st, target, prop, val, nargs) ==
    LET t == normalTarget(target)
        v == IF nargs < 3 THEN Get(st, t, prop) ELSE val
    IN  defineProperty(st, t, prop,
            [has |-> {"configurable", "enumerable", "writable", "value"},
             configurable |-> FALSE, enumerable |-> TRUE,
             writable |-> FALSE, value |-> v, get |-> NoFn, set |-> NoFn])

\* setting with the writable flag of locked
setting_copyOfLocked(st, target, prop, val, nargs) ==
    LET t == normalTarget(target)
        v == IF nargs < 3 THEN Get(st, t, prop) ELSE val
    IN  defineProperty(st, t, prop,
            [has |-> {"configurable", "enumerable", "writable", "value"},
             configurable |-> FALSE, enumerable |-> FALSE,
             writable |-> FALSE, value |-> v, get |-> NoFn, set |-> NoFn])

setting(st, target, prop, val, nargs) ==
    LET t == normalTarget(target)
        v == IF nargs < 3 THEN Get(st, t, prop) ELSE val
    IN  defineProperty(st, t, prop,
            [has |-> {"configurable", "enumerable", "writable", "value"},
             configurable |-> FALSE, enumerable |-> FALSE,
             writable |-> TRUE, value |-> v, get |-> NoFn, set |-> NoFn])

\* locked that refuses a slot which is already not configurable
locked_refusesLocked(st, target, prop, val, nargs) ==
    LET t == normalTarget(target)
        v == IF nargs < 3 THEN Get(st, t, prop) ELSE val
        own == getOwnPropertyDescriptor(st.heap, t, prop)
    IN  IF Defined(own) /\ ~own.configurable
        THEN Threw(st)
        ELSE defineProperty(st, t, prop,
                [has |-> {"configurable", "enumerable", "writable", "value"},
                 configurable |-> FALSE, enumerable |-> FALSE,
                 writable |-> FALSE, value |-> v, get |-> NoFn, set |-> NoFn])

locked(st, target, prop, val, nargs) ==
    LET t == normalTarget(target)
        v == IF nargs < 3 THEN Get(st, t, prop) ELSE val
    IN  defineProperty(st, t, prop,
            [has |-> {"configurable", "enumerable", "writable", "value"},
             configurable |-> FALSE, enumerable |-> FALSE,
             writable |-> FALSE, value |-> v, get |-> NoFn, set |-> NoFn])

\* value that always makes the plain assignment
value_plainAssignment(st, target, prop, val) ==
    Ok(Put(st, normalTarget(target), prop, val))

\* value that returns without a word when the runtime would refuse
value_silentWhenRefused(st, target, prop, val) ==
    LET t == normalTarget(target)
        d == describe(st.heap, t, prop)
        d1 == WithField(d.desc, "value", val)
        d2 == IF d.desc.get # NoFn /\ d.desc.set = NoFn
              THEN WithField(d1, "writable", FALSE)
              ELSE d1
        d3 == WithoutField(WithoutField(d2, "get"), "set")
    IN  IF d.err THEN Threw(st)
        ELSE IF Defined(d.desc)
             THEN Ok(defineProperty(st, t, prop, d3).st)
        ELSE Ok(Put(st, t, prop, val))

value(st, target, prop, val) ==
    LET t == normalTarget(target)
        d == describe(st.heap, t, prop)
        d1 == WithField(d.desc, "value", val)
        d2 == IF d.desc.get # NoFn /\ d.desc.set = NoFn
              THEN WithField(d1, "writable", FALSE)
              ELSE d1
        d3 == WithoutField(WithoutField(d2, "get"), "set")
    IN  IF d.err THEN Threw(st)
        ELSE IF Defined(d.desc) THEN defineProperty(st, t, prop, d3)
        ELSE Ok(Put(st, t, prop, val))

\* configurable whose omitted flag defaults to false
configurable_defaultFalse(st, target, prop, flag, nargs) ==
    LET t == normalTarget(target)
        f == IF nargs < 3 THEN FALSE ELSE flag
        d == describe(st.heap, t, prop)
    IN  IF d.err THEN Threw(st)
        ELSE IF Defined(d.desc)
             THEN defineProperty(st, t, prop, WithField(d.desc, "configurable", f))
        ELSE IF ~f THEN field(st, t, prop, Undefined, 2)
        ELSE Ok(st)

configurable(st, target, prop, flag, nargs) ==
    LET t == normalTarget(target)
        f == IF nargs < 3 THEN TRUE ELSE flag
        d == describe(st.heap, t, prop)
    IN  IF d.err THEN Threw(st)
        ELSE IF Defined(d.desc)
             THEN defineProperty(st, t, prop, WithField(d.desc, "configurable", f))
        ELSE IF ~f THEN field(st, t, prop, Undefined, 2)
        ELSE Ok(st)

\* enumerable that updates the slot on the object that owns it
enumerable_onOwner(st, target, prop, flag, nargs) ==
    LET t == normalTarget(target)
        f == IF nargs < 3 THEN TRUE ELSE flag
        d == describe(st.heap, t, prop)
        owner == IF Defined(getOwnPropertyDescriptor(st.heap, t, prop))
                    \/ getPrototypeOf(t) \notin DOMAIN st.heap
                 THEN t
                 ELSE getPrototypeOf(t)
    IN  IF d.err THEN Threw(st)
        ELSE IF Defined(d.desc)
             THEN defineProperty(st, owner, prop, WithField(d.desc, "enumerable", f))
        ELSE IF ~f THEN hidden(st, t, prop, Undefined, 2)
        ELSE Ok(st)

enumerable(st, target, prop, flag, nargs) ==
    LET t == normalTarget(target)
        f == IF nargs < 3 THEN TRUE ELSE flag
        d == describe(st.heap, t, prop)
    IN  IF d.err THEN Threw(st)
        ELSE IF Defined(d.desc)
             THEN defineProperty(st, t, prop, WithField(d.desc, "enumerable", f))
        ELSE IF ~f THEN hidden(st, t, prop, Undefined, 2)
        ELSE Ok(st)

writable(st, target, prop, flag, nargs) ==
    LET t == normalTarget(target)
        f == IF nargs < 3 THEN TRUE ELSE flag
        d == describe(st.heap, t, prop)
    IN  IF d.err THEN Threw(st)
        ELSE IF Defined(d.desc)
             THEN defineProperty(st, t, prop, WithField(d.desc, "writable", f))
        ELSE IF ~f THEN readonly(st, t, prop, Undefined, 2)
        ELSE Ok(st)

get(st, target, prop, getter) ==
    LET t == normalTarget(target)
        d == describe(st.heap, t, prop)
        desc == IF Defined(d.desc)
                THEN WithField(d.desc, "get", getter)
                ELSE AccessorProp(TRUE, TRUE, getter, NoFn)
    IN  IF d.err THEN Threw(st) ELSE defineProperty(st, t, prop, desc)

set(st, target, prop, setter) ==
    LET t == normalTarget(target)
        d == describe(st.heap, t, prop)
        desc == IF Defined(d.desc)
                THEN WithField(d.desc, "set", setter)
                ELSE AccessorProp(TRUE, TRUE, NoFn, setter)
    IN  IF d.err THEN Threw(st) ELSE defineProperty(st, t, prop, desc)

\* the closure a layering definer allocates: its val, the get / set of the
\* descriptor it captured (desc = describe(...) || {}), its callback
NewEnv(k, v, desc, f) ==
    [kind |-> k, val |-> v, dget |-> desc.get, dset |-> desc.set, fn |-> f]

\* the descriptor literal of a layering definer, with the getter and the
\* setter of closure number i
Layered(st, t, prop, env, e) ==
    LET i == Len(st.envs) + 1
        r == defineProperty([st EXCEPT !.envs = Append(@, env)], t, prop,
                            AccessorProp(TRUE, e, LayerGet(i), LayerSet(i)))
    IN  IF r.err THEN Threw(st) ELSE r

validated(st, target, prop, val, validator, nargs) ==
    LET t == normalTarget(target)
        d == describe(st.heap, t, prop)
        v == IF nargs < 4 THEN Get(st, t, prop) ELSE val
    IN  IF d.err THEN Threw(st)
        ELSE Layered(st, t, prop, NewEnv("validated", v, d.desc, validator), TRUE)

normalized(st, target, prop, val, normalizer, nargs) ==
    LET t == normalTarget(target)
        d == describe(st.heap, t, prop)
        v == IF nargs < 4 THEN Get(st, t, prop) ELSE val
    IN  IF d.err THEN Threw(st)
        ELSE Layered(st, t, prop, NewEnv("normalized", v, d.desc, normalizer), TRUE)

\* derived that keeps the setter the slot had
derived_keepsSetter(st, target, prop, derive) ==
    defineProperty(st, normalTarget(target), prop,
                   AccessorProp(TRUE, FALSE, derive,
                                getOwnPropertyDescriptor(st.heap, normalTarget(target), prop).set))

derived(st, target, prop, derive) ==
    defineProperty(st, normalTarget(target), prop,
                   AccessorProp(TRUE, FALSE, derive, NoFn))

managed(st, target, prop, setter, getter) ==
    defineProperty(st, normalTarget(target), prop,
                   AccessorProp(TRUE, FALSE, getter, setter))

triggered(st, target, prop, change) ==
    LET t == normalTarget(target)
        v == Get(st, t, prop)
        d == describe(st.heap, t, prop)
    IN  IF d.err THEN Threw(st)
        ELSE Layered(st, t, prop, NewEnv("triggered", v, d.desc, change), FALSE)

(* ------------------------------------------------------------------ *)
(* The state machine: a calling program that makes library calls,      *)
(* plain assignments and deletes on its objects.                       *)
(* ------------------------------------------------------------------ *)

VARIABLES
    heap,     \* [Objects -> [Slots -> descriptor]]: the own properties
    envs,     \* the closures allocated by validated / normalized / triggered
    cell,     \* the variable behind the caller's getCell / setCell
    log,      \* the caller functions invoked by the last step, in order
    last,     \* the last step: operation, arguments, outcome
    world,    \* which objects the calling program works on
    nCalls    \* number of steps made

vars == <<heap, envs, cell, log, last, world, nCalls>>

\* the objects the calling program passes to the library
Targets ==
    CASE world = "chain" -> {"obj"}
      [] world = "ctor" -> {"F"}
      [] world = "bare" -> {"bare"}

\* the objects the calling program assigns to and deletes from
Receivers ==
    CASE world = "chain" -> {"obj", "proto"}
      [] world = "ctor" -> {"F", "inst"}
      [] world = "bare" -> {"bare"}

Validators == {"isNumber", "truthy"}
Normalizers == {"lower"}
Triggers == {"change"}

Store == [heap |-> heap, envs |-> envs, cell |-> cell, log |-> <<>>]

\* the record of a step.  pre is the own descriptor the slot had on the
\* object the call works on, read is what reading the slot gave, both
\* before the step; ret is what describe returned
Call(op, target, prop, val, nargs, flag, fns, r) ==
    [op |-> op, target |-> target, prop |-> prop, val |-> val,
     nargs |-> nargs, flag |-> flag, fns |-> fns, err |-> r.err,
     pre |-> getOwnPropertyDescriptor(heap, normalTarget(target), prop),
     read |-> Get(Store, normalTarget(target), prop),
     ret |-> NoDesc]

Step(r, call) ==
    /\ nCalls < MaxCalls
    /\ heap' = r.st.heap
    /\ envs' = r.st.envs
    /\ cell' = r.st.cell
    /\ log' = r.st.log
    /\ last' = call
    /\ nCalls' = nCalls + 1
    /\ UNCHANGED world

EmptyObject == [p \in Slots |-> NoDesc]

\* the object literals the calling program starts from: {}, {a: "FOO"},
\* {get a() {...}} and {get a() {...}, set a(v) {...}}
GetterOnly == [p \in Slots |-> AccessorProp(TRUE, TRUE, getCell, NoFn)]

Literals ==
    {EmptyObject,
     [p \in Slots |-> DataProp(TRUE, TRUE, TRUE, "FOO")],
     GetterOnly,
     [p \in Slots |-> AccessorProp(TRUE, TRUE, getCell, setCell)]}

\* the objects that start as one of the literals; the others start empty
Initial ==
    CASE world = "chain" -> {"obj", "proto"}
      [] world = "ctor" -> {"Fp"}
      [] world = "bare" -> {"bare"}

Init ==
    /\ world \in {"chain", "ctor", "bare"}
    /\ heap \in [Objects -> Literals]
    /\ \A o \in Objects : o \notin Initial => heap[o] = EmptyObject
    /\ \A o \in Objects \ Targets : heap[o] # GetterOnly
    /\ envs = <<>>
    /\ cell = "1"
    /\ log = <<>>
    /\ last = [op |-> "init", target |-> "obj", prop |-> "a", val |-> Undefined,
               nargs |-> 0, flag |-> FALSE, fns |-> <<>>, err |-> FALSE,
               pre |-> NoDesc, read |-> Undefined, ret |-> NoDesc]
    /\ nCalls = 0

\* the arguments of a value definer: (target, prop) or (target, prop, val)
DefinerArgs == {<<Undefined, 2>>} \cup {<<v, 3>> : v \in DefineValues}

Basic ==
    \E t \in Targets, p \in Slots, a \in DefinerArgs :
        Step(basic(Store, t, p, a[1], a[2]),
             Call("basic", t, p, a[1], a[2], FALSE, <<>>, basic(Store, t, p, a[1], a[2])))

Field ==
    \E t \in Targets, p \in Slots, a \in DefinerArgs :
        Step(field(Store, t, p, a[1], a[2]),
             Call("field", t, p, a[1], a[2], FALSE, <<>>, field(Store, t, p, a[1], a[2])))

Hidden ==
    \E t \in Targets, p \in Slots, a \in DefinerArgs :
        Step(hidden(Store, t, p, a[1], a[2]),
             Call("hidden", t, p, a[1], a[2], FALSE, <<>>, hidden(Store, t, p, a[1], a[2])))

Readonly ==
    \E t \in Targets, p \in Slots, a \in DefinerArgs :
        Step(readonly(Store, t, p, a[1], a[2]),
             Call("readonly", t, p, a[1], a[2], FALSE, <<>>, readonly(Store, t, p, a[1], a[2])))

Internal ==
    \E t \in Targets, p \in Slots, a \in DefinerArgs :
        Step(internal(Store, t, p, a[1], a[2]),
             Call("internal", t, p, a[1], a[2], FALSE, <<>>, internal(Store, t, p, a[1], a[2])))

Attribute ==
    \E t \in Targets, p \in Slots, a \in DefinerArgs :
        Step(attribute(Store, t, p, a[1], a[2]),
             Call("attribute", t, p, a[1], a[2], FALSE, <<>>, attribute(Store, t, p, a[1], a[2])))

Setting ==
    \E t \in Targets, p \in Slots, a \in DefinerArgs :
        Step(setting(Store, t, p, a[1], a[2]),
             Call("setting", t, p, a[1], a[2], FALSE, <<>>, setting(Store, t, p, a[1], a[2])))

Locked ==
    \E t \in Targets, p \in Slots, a \in DefinerArgs :
        Step(locked(Store, t, p, a[1], a[2]),
             Call("locked", t, p, a[1], a[2], FALSE, <<>>, locked(Store, t, p, a[1], a[2])))

ValueCall ==
    \E t \in Targets, p \in Slots, v \in InputValues :
        Step(value(Store, t, p, v),
             Call("value", t, p, v, 3, FALSE, <<>>, value(Store, t, p, v)))

\* the arguments of a flag updater: (target, prop) or (target, prop, flag)
FlagArgs == {<<TRUE, 2>>, <<TRUE, 3>>, <<FALSE, 3>>}

Configurable ==
    \E t \in Targets, p \in Slots, a \in FlagArgs :
        Step(configurable(Store, t, p, a[1], a[2]),
             Call("configurable", t, p, Undefined, a[2], a[1], <<>>,
                  configurable(Store, t, p, a[1], a[2])))

Enumerable ==
    \E t \in Targets, p \in Slots, a \in FlagArgs :
        Step(enumerable(Store, t, p, a[1], a[2]),
             Call("enumerable", t, p, Undefined, a[2], a[1], <<>>,
                  enumerable(Store, t, p, a[1], a[2])))

Writable ==
    \E t \in Targets, p \in Slots, a \in FlagArgs :
        Step(writable(Store, t, p, a[1], a[2]),
             Call("writable", t, p, Undefined, a[2], a[1], <<>>,
                  writable(Store, t, p, a[1], a[2])))

GetCall ==
    \E t \in Targets, p \in Slots, g \in {getCell, deriveFn} :
        Step(get(Store, t, p, g),
             Call("get", t, p, Undefined, 3, FALSE, <<g.id>>, get(Store, t, p, g)))

SetCall ==
    \E t \in Targets, p \in Slots, s \in {setCell} :
        Step(set(Store, t, p, s),
             Call("set", t, p, Undefined, 3, FALSE, <<s.id>>, set(Store, t, p, s)))

\* the arguments of validated / normalized: (target, prop, fn) or
\* (target, prop, val, fn)
LayerArgs == {<<Undefined, 3>>} \cup {<<v, 4>> : v \in DefineValues}

Validated ==
    \E t \in Targets, p \in Slots, a \in LayerArgs, f \in Validators :
        Step(validated(Store, t, p, a[1], f, a[2]),
             Call("validated", t, p, a[1], a[2], FALSE, <<f>>,
                  validated(Store, t, p, a[1], f, a[2])))

Normalized ==
    \E t \in Targets, p \in Slots, a \in LayerArgs, f \in Normalizers :
        Step(normalized(Store, t, p, a[1], f, a[2]),
             Call("normalized", t, p, a[1], a[2], FALSE, <<f>>,
                  normalized(Store, t, p, a[1], f, a[2])))

Derived ==
    \E t \in Targets, p \in Slots :
        Step(derived(Store, t, p, deriveFn),
             Call("derived", t, p, Undefined, 3, FALSE, <<deriveFn.id>>,
                  derived(Store, t, p, deriveFn)))

Managed ==
    \E t \in Targets, p \in Slots :
        Step(managed(Store, t, p, setCell, getCell),
             Call("managed", t, p, Undefined, 4, FALSE, <<setCell.id, getCell.id>>,
                  managed(Store, t, p, setCell, getCell)))

Triggered ==
    \E t \in Targets, p \in Slots, f \in Triggers :
        Step(triggered(Store, t, p, f),
             Call("triggered", t, p, Undefined, 3, FALSE, <<f>>,
                  triggered(Store, t, p, f)))

\* the calling program's own o[p] = v
Assign ==
    \E o \in Receivers, p \in Slots, v \in InputValues :
        Step(Ok(Put(Store, o, p, v)),
             Call("assign", o, p, v, 0, FALSE, <<>>, Ok(Store)))

\* the calling program's own delete o[p]
DeleteProp ==
    \E o \in Receivers, p \in Slots :
        Step([st |-> Delete(Store, o, p).st, err |-> FALSE],
             Call("delete", o, p, Undefined, 0, Delete(Store, o, p).ok, <<>>, Ok(Store)))

\* the calling program's own describe(o, p)
Describe ==
    \E o \in Receivers, p \in Slots \cup RootSlots :
        Step([st |-> Store, err |-> describe(heap, o, p).err],
             [Call("describe", o, p, Undefined, 2, FALSE, <<>>,
                   [err |-> describe(heap, o, p).err])
                 EXCEPT !.ret = describe(heap, o, p).desc])

Next ==
    \/ Basic \/ Field \/ Hidden \/ Readonly
    \/ Internal \/ Attribute \/ Setting \/ Locked
    \/ ValueCall
    \/ Configurable \/ Enumerable \/ Writable
    \/ GetCall \/ SetCall
    \/ Validated \/ Normalized \/ Derived \/ Managed \/ Triggered
    \/ Assign \/ DeleteProp
    \/ Describe

Spec == Init /\ [][Next]_vars

(* ------------------------------------------------------------------ *)
(* The layering program: it stacks validated / normalized / triggered  *)
(* on one slot of an object or of a constructor's prototype and then   *)
(* assigns to the slot, through the object or through two instances.   *)
(* ------------------------------------------------------------------ *)

\* {set a(v) {...}}
SetterOnly == [p \in Slots |-> AccessorProp(TRUE, TRUE, NoFn, setCell)]

\* the object that owns the slot when the layering program starts
LayerOwner == IF world = "chain" THEN "obj" ELSE "Fp"

\* the objects the layering program assigns through
LayerReceivers == IF world = "chain" THEN {"obj"} ELSE {"inst", "inst2"}

LayerTriggers == {"change", "change2"}

LayerInit ==
    /\ world \in {"chain", "ctor"}
    /\ heap \in [Objects -> Literals \cup {SetterOnly}]
    /\ \A o \in Objects : o # LayerOwner => heap[o] = EmptyObject
    /\ envs = <<>>
    /\ cell = "1"
    /\ log = <<>>
    /\ last = [op |-> "init", target |-> "obj", prop |-> "a", val |-> Undefined,
               nargs |-> 0, flag |-> FALSE, fns |-> <<>>, err |-> FALSE,
               pre |-> NoDesc, read |-> Undefined, ret |-> NoDesc]
    /\ nCalls = 0

LayerStep(r, call) ==
    /\ nCalls < MaxLayerCalls
    /\ heap' = r.st.heap
    /\ envs' = r.st.envs
    /\ cell' = r.st.cell
    /\ log' = r.st.log
    /\ last' = call
    /\ nCalls' = nCalls + 1
    /\ UNCHANGED world

\* (target, prop, fn) or (target, prop, "1", fn)
LayerCallArgs == {<<Undefined, 3>>, <<"1", 4>>}

LayerValidated ==
    \E t \in Targets, p \in Slots, a \in LayerCallArgs :
        LayerStep(validated(Store, t, p, a[1], "isNumber", a[2]),
                  Call("validated", t, p, a[1], a[2], FALSE, <<"isNumber">>,
                       validated(Store, t, p, a[1], "isNumber", a[2])))

LayerNormalized ==
    \E t \in Targets, p \in Slots, a \in LayerCallArgs :
        LayerStep(normalized(Store, t, p, a[1], "lower", a[2]),
                  Call("normalized", t, p, a[1], a[2], FALSE, <<"lower">>,
                       normalized(Store, t, p, a[1], "lower", a[2])))

LayerTriggered ==
    \E t \in Targets, p \in Slots, f \in LayerTriggers :
        LayerStep(triggered(Store, t, p, f),
                  Call("triggered", t, p, Undefined, 3, FALSE, <<f>>,
                       triggered(Store, t, p, f)))

LayerAssign ==
    \E o \in LayerReceivers, p \in Slots, v \in InputValues :
        LayerStep(Ok(Put(Store, o, p, v)),
                  Call("assign", o, p, v, 0, FALSE, <<>>, Ok(Store)))

LayerNext ==
    \/ LayerValidated \/ LayerNormalized \/ LayerTriggered
    \/ LayerAssign

LayerSpec == LayerInit /\ [][LayerNext]_vars

(* ------------------------------------------------------------------ *)
(* Properties                                                          *)
(* ------------------------------------------------------------------ *)

Definers ==
    {"basic", "field", "hidden", "readonly", "internal", "attribute",
     "setting", "locked"}

FlagUpdaters == {"configurable", "enumerable", "writable"}

AccessorDefiners == {"derived", "managed", "validated", "normalized", "triggered"}

LibraryOps ==
    Definers \cup FlagUpdaters \cup AccessorDefiners \cup {"value", "get", "set"}

\* the flag table of the value definers: <<configurable, enumerable, writable>>
FlagTable(op) ==
    CASE op = "basic" -> <<TRUE, TRUE, TRUE>>
      [] op = "field" -> <<FALSE, TRUE, TRUE>>
      [] op = "hidden" -> <<TRUE, FALSE, TRUE>>
      [] op = "readonly" -> <<TRUE, TRUE, FALSE>>
      [] op = "internal" -> <<TRUE, FALSE, FALSE>>
      [] op = "attribute" -> <<FALSE, TRUE, FALSE>>
      [] op = "setting" -> <<FALSE, FALSE, TRUE>>
      [] op = "locked" -> <<FALSE, FALSE, FALSE>>

\* the value-slot the table describes, holding v
TableSlot(op, v) ==
    [has |-> {"configurable", "enumerable", "writable", "value"},
     configurable |-> FlagTable(op)[1], enumerable |-> FlagTable(op)[2],
     writable |-> FlagTable(op)[3], value |-> v, get |-> NoFn, set |-> NoFn]

\* the object the last call worked on and the own descriptor its slot has now
LastObject == normalTarget(last.target)
LastSlot == heap[LastObject][last.prop]

\* C1: a value definer called with a value on an object target that does
\* not own the slot succeeds and leaves an own value-slot holding that
\* value with exactly the flags of the definer's row in the table.
C1_FreshSlotHasTableFlags ==
    (/\ last.op \in Definers
     /\ last.nargs = 3
     /\ ~IsFunction(last.target)
     /\ ~Defined(last.pre))
    => (~last.err /\ LastSlot = TableSlot(last.op, last.val))

C1_Witness ==
    /\ last.op = "locked"
    /\ last.nargs = 3
    /\ last.target = "obj"
    /\ ~Defined(last.pre)
    /\ last.val = "1"
    /\ LastSlot = DataProp(FALSE, FALSE, FALSE, "1")

\* C2: a value definer called with a value on a slot whose own descriptor
\* is absent or configurable (value-slot or accessor-slot, any flags)
\* succeeds and leaves a value-slot holding the supplied value, without
\* getter or setter, with exactly the definer's three flags.
C2_ReplacesConfigurableSlot ==
    (/\ last.op \in Definers
     /\ last.nargs = 3
     /\ (Defined(last.pre) => last.pre.configurable))
    => (/\ ~last.err
        /\ LastSlot = TableSlot(last.op, last.val)
        /\ ~IsAccessor(LastSlot))

C2_Witness ==
    /\ last.op = "setting"
    /\ last.nargs = 3
    /\ IsAccessor(last.pre)
    /\ last.pre.get # NoFn /\ last.pre.set # NoFn
    /\ last.pre.enumerable /\ last.pre.configurable
    /\ ~last.err
    /\ LastSlot = DataProp(FALSE, FALSE, TRUE, last.val)

\* C3: a value definer that succeeds stores, when called with (target,
\* slot) only, the value a read of the slot on the object it works on gave
\* just before the call (own value, inherited value, result of the prior
\* getter, undefined when absent), and when called with three arguments the
\* third argument, undefined included.
C3_OmittedValueIsCurrentValue ==
    (last.op \in Definers /\ ~last.err)
    => (/\ IsData(LastSlot)
        /\ LastSlot.value = IF last.nargs < 3 THEN last.read ELSE last.val)

C3_Witness ==
    /\ last.op \in Definers
    /\ last.nargs = 2
    /\ ~last.err
    /\ IsAccessor(last.pre)
    /\ last.read = "1"
    /\ IsData(LastSlot)
    /\ LastSlot.value = "1"

SameCall(c, d) ==
    /\ c.op = d.op /\ c.target = d.target /\ c.prop = d.prop
    /\ c.val = d.val /\ c.nargs = d.nargs

\* C4: when a value definer call with a value has succeeded, the same call
\* made again immediately raises no error and changes nothing: every
\* descriptor and value is as the first call left it.
C4_SecondCallChangesNothing ==
    [][(/\ last.op \in Definers
        /\ last.nargs = 3
        /\ ~last.err
        /\ SameCall(last', last))
       => (~last'.err /\ heap' = heap /\ envs' = envs /\ cell' = cell)]_vars

C4_Witness ==
    /\ last.op \in {"attribute", "locked"}
    /\ last.nargs = 3
    /\ nCalls = 2
    /\ ~last.err
    /\ Defined(last.pre)
    /\ ~last.pre.configurable /\ ~last.pre.writable
    /\ last.pre = TableSlot(last.op, last.val)
    /\ LastSlot = last.pre

\* the last step was a library call on a slot that its object owned with
\* configurable = false
OnLockedSlot ==
    /\ last.op \in LibraryOps
    /\ Defined(last.pre)
    /\ ~last.pre.configurable

\* the flag a flag updater was asked to set
AskedFlag == IF last.nargs < 3 THEN TRUE ELSE last.flag

\* the value a value definer was asked to store
AskedValue == IF last.nargs < 3 THEN last.read ELSE last.val

\* what the last call, made on a slot with configurable = false, asked
\* for is something the slot (descriptor d) already is or may still become
AsksNoForbiddenChange(d) ==
    CASE last.op \in Definers ->
            /\ IsData(d)
            /\ ~FlagTable(last.op)[1]
            /\ FlagTable(last.op)[2] = d.enumerable
            /\ d.writable \/ (~FlagTable(last.op)[3] /\ AskedValue = d.value)
      [] last.op = "value" ->
            IsData(d) /\ (d.writable \/ last.val = d.value)
      [] last.op = "configurable" -> ~AskedFlag
      [] last.op = "enumerable" -> AskedFlag = d.enumerable
      [] last.op = "writable" -> IsData(d) /\ (d.writable \/ ~AskedFlag)
      [] last.op = "get" -> IsAccessor(d) /\ d.get = UserFn(last.fns[1])
      [] last.op = "set" -> IsAccessor(d) /\ d.set = UserFn(last.fns[1])
      [] OTHER -> FALSE

C6_LockedSlotKeepsShape ==
    [][\A o \in Objects, p \in Slots :
          (Defined(heap[o][p]) /\ ~heap[o][p].configurable)
          => (/\ Defined(heap'[o][p])
              /\ ~heap'[o][p].configurable
              /\ heap'[o][p].enumerable = heap[o][p].enumerable
              /\ IsData(heap'[o][p]) = IsData(heap[o][p])
              /\ heap'[o][p].get = heap[o][p].get
              /\ heap'[o][p].set = heap[o][p].set)]_vars

C6_Witness ==
    /\ last.op = "managed"
    /\ Defined(last.pre)
    /\ ~last.pre.configurable
    /\ IsAccessor(last.pre)
    /\ last.pre.set = NoFn
    /\ last.err
    /\ LastSlot = last.pre

C8_ObservableBehaviourMatchesFlags ==
    (/\ last.op \in Definers
     /\ last.nargs = 3
     /\ ~IsFunction(last.target)
     /\ ~Defined(last.pre))
    => (/\ (last.prop \in ForIn(heap, LastObject)) <=> FlagTable(last.op)[2]
        /\ \A w \in InputValues :
              Get(Put(Store, LastObject, last.prop, w), LastObject, last.prop)
                 = IF FlagTable(last.op)[3] THEN w ELSE last.val
        /\ Delete(Store, LastObject, last.prop).ok <=> FlagTable(last.op)[1]
        /\ Defined(Delete(Store, LastObject, last.prop).st.heap[LastObject][last.prop])
              <=> ~FlagTable(last.op)[1])

C8_Witness ==
    /\ last.op = "internal"
    /\ last.nargs = 3
    /\ last.target = "obj"
    /\ ~Defined(last.pre)
    /\ last.val = "1"
    /\ last.prop \notin ForIn(heap, "obj")
    /\ Get(Put(Store, "obj", last.prop, "FOO"), "obj", last.prop) = "1"
    /\ Delete(Store, "obj", last.prop).ok

\* the store after the step
StoreAfter == [heap |-> heap', envs |-> envs', cell |-> cell', log |-> <<>>]

\* C9: a library call whose target is a constructor function changes no
\* own slot of the constructor (nor of any object other than the
\* constructor's prototype object); after a value definer or value call
\* with value v the prototype object owns the slot and a read of it yields
\* v, while a read of the slot on a constructor that does not own it
\* still yields undefined.
C9_ConstructorRedirectsToPrototype ==
    [][(last'.op \in LibraryOps /\ IsFunction(last'.target))
       => (/\ \A o \in Objects \ {PrototypeProperty(last'.target)} :
                 heap'[o] = heap[o]
           /\ (last'.op \in Definers \cup {"value"} /\ last'.nargs = 3 /\ ~last'.err)
                 => (/\ Defined(heap'[PrototypeProperty(last'.target)][last'.prop])
                     /\ Get(StoreAfter, PrototypeProperty(last'.target), last'.prop)
                           = last'.val
                     /\ ~Defined(heap[last'.target][last'.prop])
                           => Get(StoreAfter, last'.target, last'.prop) = Undefined))]_vars

C9_Witness ==
    /\ last.op \in Definers \cup {"value"}
    /\ last.target = "F"
    /\ last.nargs = 3
    /\ last.val = "1"
    /\ ~last.err
    /\ ~Defined(heap["F"][last.prop])
    /\ Get(Store, "F", last.prop) = Undefined
    /\ Defined(heap["Fp"][last.prop])
    /\ Get(Store, "Fp", last.prop) = "1"

\* descriptor d with the flag named by a flag updater set to f
WithFlag(d, op, f) ==
    CASE op = "configurable" -> [d EXCEPT !.configurable = f]
      [] op = "enumerable" -> [d EXCEPT !.enumerable = f]
      [] op = "writable" -> [d EXCEPT !.writable = f]

\* C10: on a slot the object owns with configurable = true, configurable
\* and enumerable (value-slot or accessor-slot) and writable (value-slot)
\* succeed and set exactly the named flag to the given flag, true when it
\* is omitted; the other flags, the value, the getter and the setter stay.
C10_FlagUpdaterSetsOneFlag ==
    (/\ last.op \in FlagUpdaters
     /\ Defined(last.pre)
     /\ last.pre.configurable
     /\ last.op = "writable" => IsData(last.pre))
    => (~last.err /\ LastSlot = WithFlag(last.pre, last.op, AskedFlag))

C10_Witness ==
    /\ last.op = "enumerable"
    /\ last.nargs = 2
    /\ IsAccessor(last.pre)
    /\ last.pre.configurable
    /\ ~last.pre.enumerable
    /\ last.pre.get = deriveFn
    /\ ~last.err
    /\ LastSlot = AccessorProp(TRUE, TRUE, deriveFn, NoFn)

\* the object the step being taken works on
NextObject == normalTarget(last'.target)

\* no object on the chain of o, Object.prototype included, owns slot p
AbsentEverywhere(h, o, p) == ~Defined(Lookup(h, o, p))

\* the store the definer a flag updater falls back on would leave when
\* called with (target, slot)
FallbackStore(op, st, t, p) ==
    CASE op = "configurable" -> field(st, t, p, Undefined, 2).st
      [] op = "enumerable" -> hidden(st, t, p, Undefined, 2).st
      [] op = "writable" -> readonly(st, t, p, Undefined, 2).st

\* C11: when neither the target nor any object on its prototype chain has
\* the slot, configurable / enumerable / writable called with flag false
\* raise no error and leave the heap as field / hidden / readonly called
\* with (target, slot) would (an own value-slot holding undefined); called
\* with flag true or without a flag they raise no error and change nothing.
C11_FlagUpdaterFallsBackOnDefiner ==
    [][(/\ last'.op \in FlagUpdaters
        /\ AbsentEverywhere(heap, NextObject, last'.prop))
       => (/\ ~last'.err
           /\ heap' = IF last'.nargs = 3 /\ ~last'.flag
                      THEN FallbackStore(last'.op, Store, NextObject, last'.prop).heap
                      ELSE heap
           /\ (last'.nargs = 3 /\ ~last'.flag)
                 => /\ IsData(heap'[NextObject][last'.prop])
                    /\ heap'[NextObject][last'.prop].value = Undefined)]_vars

\* the object does not own the slot and describe finds it on a prototype
Inherited(h, o, p) ==
    /\ ~Defined(getOwnPropertyDescriptor(h, o, p))
    /\ Defined(describe(h, o, p).desc)

ShadowingOps ==
    FlagUpdaters \cup {"value", "get", "set", "validated", "normalized", "triggered"}

\* the step being taken is a call of one of these functions on an object
\* target that inherits the slot
CallOnInheritedSlot ==
    /\ last'.op \in ShadowingOps
    /\ ~IsFunction(last'.target)
    /\ Inherited(heap, NextObject, last'.prop)

\* the call asks for a descriptor with both shapes: writable on an
\* accessor-slot, get or set on a value-slot
MixesShapes(op, d) ==
    \/ op = "writable" /\ IsAccessor(d)
    \/ op \in {"get", "set"} /\ IsData(d)

\* C12 as stated: a call of a flag updater, value, get, set, validated,
\* normalized or triggered on an object target that inherits the slot
\* defines a new own descriptor on the target and changes no descriptor of
\* any other object.
C12_EveryCallShadowsInheritedSlot ==
    [][CallOnInheritedSlot
       => (/\ Defined(heap'[NextObject][last'.prop])
           /\ \A o \in Objects \ {NextObject} : heap'[o] = heap[o])]_vars

\* C12 amended: such a call changes no descriptor of any other object; it
\* raises an error and defines nothing when it is writable on an inherited
\* accessor-slot or get / set on an inherited value-slot, and otherwise
\* raises no error and defines a new own descriptor on the target.
C12_CallShadowsUnlessShapesMix ==
    [][CallOnInheritedSlot
       => (/\ \A o \in Objects \ {NextObject} : heap'[o] = heap[o]
           /\ last'.err <=> MixesShapes(last'.op, describe(heap, NextObject, last'.prop).desc)
           /\ last'.err => heap' = heap
           /\ ~last'.err => Defined(heap'[NextObject][last'.prop]))]_vars

C12_Witness ==
    /\ last.op = "enumerable"
    /\ last.nargs = 3
    /\ ~last.flag
    /\ last.target = "obj"
    /\ ~Defined(last.pre)
    /\ ~last.err
    /\ heap["proto"]["a"] = DataProp(TRUE, TRUE, TRUE, "FOO")
    /\ LastSlot = DataProp(TRUE, FALSE, TRUE, "FOO")

\* the objects on the prototype chain of o, o first, up to but without
\* Object.prototype
RECURSIVE ChainBeforeRoot(_)
ChainBeforeRoot(o) ==
    IF o \in {Root, Null} THEN <<>>
    ELSE <<o>> \o ChainBeforeRoot(getPrototypeOf(o))

\* the own descriptor of the first object of that chain that owns slot p,
\* no descriptor when none does
FirstOwnDescriptor(h, o, p) ==
    LET chain == ChainBeforeRoot(o)
        owners == {i \in 1..Len(chain) :
                      Defined(getOwnPropertyDescriptor(h, chain[i], p))}
    IN  IF owners = {} THEN NoDesc
        ELSE getOwnPropertyDescriptor(h,
                 chain[CHOOSE i \in owners : \A j \in owners : i <= j], p)

\* C13: describe(target, slot) returns the own descriptor of the first
\* object on the target's prototype chain, the target first, that owns the
\* slot, and not-found when no object of the chain before Object.prototype
\* owns it, also when Object.prototype itself does.
C13_DescribeReturnsFirstOwnDescriptor ==
    last.op = "describe"
    => (~last.err /\ last.ret = FirstOwnDescriptor(heap, last.target, last.prop))

\* C14: describe(target, slot) raises no error, whatever the target, an
\* object without prototype that does not own the slot included.
C14_DescribeNeverRaises ==
    last.op = "describe" => ~last.err

\* C15: describe(target, slot) called right after a successful call of a
\* definer on the same target and slot, a constructor function included,
\* raises no error and returns the descriptor that call installed.
C15_DescribeReturnsInstalledDescriptor ==
    [][(/\ last.op \in Definers \cup AccessorDefiners
        /\ ~last.err
        /\ last'.op = "describe"
        /\ last'.target = last.target
        /\ last'.prop = last.prop)
       => (~last'.err /\ last'.ret = LastSlot)]_vars

\* C16: value(target, slot, v) on a configurable value-slot, own or
\* inherited, raises no error and leaves the target an own value-slot that
\* holds v with the three flags the slot had, so that a non-writable slot
\* reads v and still reads v after a plain assignment; when neither the
\* target nor its chain has the slot the call raises no error and leaves
\* an own value-slot holding v with the three flags true.  Nothing else in
\* the heap changes.
C16_ValueChangesOnlyTheValue ==
    [][last'.op = "value"
       => LET t == NextObject
              p == last'.prop
              d == describe(heap, t, p).desc
          IN  /\ (Defined(d) /\ IsData(d) /\ d.configurable)
                    => /\ ~last'.err
                       /\ heap' = [heap EXCEPT ![t][p] = [d EXCEPT !.value = last'.val]]
                       /\ ~d.writable
                             => /\ Get(StoreAfter, t, p) = last'.val
                                /\ \A w \in InputValues :
                                      Get(Put(StoreAfter, t, p, w), t, p) = last'.val
              /\ AbsentEverywhere(heap, t, p)
                    => /\ ~last'.err
                       /\ heap' = [heap EXCEPT ![t][p] =
                                      DataProp(TRUE, TRUE, TRUE, last'.val)]]_vars

\* C17: value(target, slot, v) on a configurable accessor-slot raises no
\* error and leaves a value-slot holding v, without getter and setter,
\* with configurable and enumerable as they were, and with writable true
\* when the slot had a setter and false when it had a getter only.
C17_ValueOnAccessorKeepsWritability ==
    [][last'.op = "value"
       => LET t == NextObject
              p == last'.prop
              d == describe(heap, t, p).desc
          IN  (Defined(d) /\ IsAccessor(d) /\ d.configurable)
              => /\ ~last'.err
                 /\ heap'[t][p] =
                       DataProp(d.configurable, d.enumerable, d.set # NoFn, last'.val)]_vars

CallsOf(lg, f) == {i \in 1..Len(lg) : lg[i].fn = f}

\* the step being taken is a plain assignment to a slot whose setter is
\* the setter of closure i of validated
AssignsToValidated(i) ==
    /\ last'.op = "assign"
    /\ i \in 1..Len(envs)
    /\ envs[i].kind = "validated"
    /\ Lookup(heap, last'.target, last'.prop).set = LayerSet(i)

\* the store after the validator of closure i was called with x
\* and accepted it
Accepted(i, o, x) ==
    [Store EXCEPT !.envs[i].val = x,
                  !.log = <<LogEntry(envs[i].fn, o, x, Undefined)>>]

\* C19: a plain assignment of x to a slot defined by validated calls the
\* validator once with x.  When it returns exactly true the internal
\* value becomes x and the setter the slot had before the validated call,
\* if any, is invoked exactly once, with x and the assigned object as
\* this.  On any other result (a truthy one included) the prior setter is
\* not invoked, nothing changes and a read yields what it yielded before.
C19_ValidatedAcceptsOnlyTrue ==
    [][\A i \in 1..Len(envs) :
          AssignsToValidated(i)
          => LET o == last'.target
                 x == last'.val
                 prior == envs[i].dset
             IN  /\ Len(log') >= 1
                 /\ log'[1] = LogEntry(envs[i].fn, o, x, Undefined)
                 /\ Validate(envs[i].fn, x) = "true"
                       => /\ envs'[i].val = x
                          /\ heap' = heap
                          /\ prior = NoFn => StoreAfter = [Accepted(i, o, x) EXCEPT !.log = <<>>]
                          /\ prior.kind = "user"
                                => /\ log' = <<log'[1], LogEntry(prior.id, o, x, Undefined)>>
                                   /\ Cardinality(CallsOf(log', prior.id)) = 1
                                   /\ cell' = x
                          /\ prior.kind = "lset"
                                => /\ heap' = CallSet(Accepted(i, o, x), prior, o, x).heap
                                   /\ envs' = CallSet(Accepted(i, o, x), prior, o, x).envs
                                   /\ cell' = CallSet(Accepted(i, o, x), prior, o, x).cell
                                   /\ log' = CallSet(Accepted(i, o, x), prior, o, x).log
                 /\ Validate(envs[i].fn, x) # "true"
                       => /\ log' = <<log'[1]>>
                          /\ heap' = heap /\ envs' = envs /\ cell' = cell
                          /\ Get(StoreAfter, o, last'.prop) = Get(Store, o, last'.prop)]_vars

C19_Witness ==
    /\ last.op = "assign"
    /\ last.val = "1"
    /\ Len(envs) = 1
    /\ envs[1].kind = "validated"
    /\ envs[1].fn = "isNumber"
    /\ envs[1].dset = setCell
    /\ envs[1].val = "1"
    /\ Lookup(heap, last.target, last.prop).set = LayerSet(1)
    /\ log = <<LogEntry("isNumber", last.target, "1", Undefined),
               LogEntry("setCell", last.target, "1", Undefined)>>

\* C20: after validated(target, slot, v, fn) or normalized(target, slot,
\* v, fn) on a slot that was absent, a configurable value-slot or a
\* configurable accessor-slot, the call has raised no error, has not
\* called fn, and a read of the slot yields v.
C20_ExplicitInitialValueIsRead ==
    (/\ last.op \in {"validated", "normalized"}
     /\ last.nargs = 4
     /\ Defined(last.pre) => last.pre.configurable)
    => (/\ ~last.err
        /\ log = <<>>
        /\ Get(Store, LastObject, last.prop) = last.val)

\* the step being taken is a plain assignment to a slot whose setter is
\* the setter of closure i of a definer of the given kind
AssignsToLayer(i, kind) ==
    /\ last'.op = "assign"
    /\ i \in 1..Len(envs)
    /\ envs[i].kind = kind
    /\ Lookup(heap, last'.target, last'.prop).set = LayerSet(i)

\* C21: a plain assignment of x to a slot defined by normalized, the slot
\* having had no getter before that call (with or without a setter), is
\* accepted: the read that follows yields normalizerFn(x).
C21_NormalizedReadYieldsNormalizedValue ==
    [][\A i \in 1..Len(envs) :
          (AssignsToLayer(i, "normalized") /\ envs[i].dget = NoFn)
          => Get(StoreAfter, last'.target, last'.prop)
                = Normalize(envs[i].fn, last'.val)]_vars

\* the store after the normalizer of closure i was called with x
Normalizing(i, o, x) ==
    [Store EXCEPT !.log = <<LogEntry(envs[i].fn, o, x, Undefined)>>]

\* C22: a plain assignment of x to a slot defined by normalized over a slot
\* that had a setter calls normalizerFn once with x and then the prior
\* setter once with normalizerFn(x), never with x itself.
C22_NormalizedFeedsPriorSetter ==
    [][\A i \in 1..Len(envs) :
          (AssignsToLayer(i, "normalized") /\ envs[i].dset # NoFn)
          => LET o == last'.target
                 x == last'.val
                 nx == Normalize(envs[i].fn, x)
                 prior == envs[i].dset
             IN  /\ Len(log') >= 2
                 /\ log'[1] = LogEntry(envs[i].fn, o, x, Undefined)
                 /\ prior.kind = "user"
                       => /\ log' = <<log'[1], LogEntry(prior.id, o, nx, Undefined)>>
                          /\ cell' = nx
                 /\ prior.kind = "lset"
                       => /\ heap' = CallSet(Normalizing(i, o, x), prior, o, nx).heap
                          /\ envs' = CallSet(Normalizing(i, o, x), prior, o, nx).envs
                          /\ cell' = CallSet(Normalizing(i, o, x), prior, o, nx).cell
                          /\ log' = CallSet(Normalizing(i, o, x), prior, o, nx).log]_vars

C22_Witness ==
    /\ last.op = "assign"
    /\ last.val = "FOO"
    /\ Len(envs) = 1
    /\ envs[1].kind = "normalized"
    /\ envs[1].dset = setCell
    /\ Lookup(heap, last.target, last.prop).set = LayerSet(1)
    /\ log = <<LogEntry("lower", last.target, "FOO", Undefined),
               LogEntry("setCell", last.target, "foo", Undefined)>>
    /\ cell = "foo"

\* what the setter captured by closure i logs when called with x, the
\* internal value of closure i being x already
PriorSetterLog(i, o, x) ==
    IF envs[i].dset = NoFn THEN <<>>
    ELSE CallSet([Store EXCEPT !.envs[i].val = x], envs[i].dset, o, x).log

\* C23: a plain assignment of x to a slot defined by triggered calls
\* changeFn exactly once, last of all, with (x, old) and with the internal
\* value already x, also when x equals old; old is what a read of the slot
\* gave when triggered was called if that call was the previous step, and
\* the value assigned by the previous step if that was an assignment to
\* the same slot.
C23_TriggeredCallsBackOncePerAssignment ==
    [][\A i \in 1..Len(envs) :
          AssignsToLayer(i, "triggered")
          => LET o == last'.target
                 x == last'.val
             IN  /\ log' = Append(PriorSetterLog(i, o, x),
                                  LogEntry(envs[i].fn, o, x, envs[i].val))
                 /\ envs'[i].val = x
                 /\ (last.op = "triggered" /\ ~last.err /\ i = Len(envs))
                       => envs[i].val = last.read
                 /\ (/\ last.op = "assign"
                     /\ Lookup(heap, last.target, last.prop).set = LayerSet(i))
                       => envs[i].val = last.val]_vars

C23_Witness ==
    /\ nCalls = 3
    /\ last.op = "assign"
    /\ last.val = "1"
    /\ Len(envs) = 1
    /\ envs[1].kind = "triggered"
    /\ envs[1].dset = NoFn
    /\ envs[1].val = "1"
    /\ Lookup(heap, last.target, last.prop).set = LayerSet(1)
    /\ log = <<LogEntry("change", last.target, "1", "1")>>

\* C24: a plain assignment of x to a slot defined by triggered over a slot
\* that had a setter runs the prior setter once with x and then changeFn
\* once: a setter of the caller is called with x right before changeFn, a
\* setter of validated / normalized starts by calling its function with x,
\* and the callback of an earlier triggered runs right before the
\* callback of the later one.
C24_PriorSetterRunsBeforeCallback ==
    [][\A i \in 1..Len(envs) :
          (AssignsToLayer(i, "triggered") /\ envs[i].dset # NoFn)
          => LET o == last'.target
                 x == last'.val
                 prior == envs[i].dset
                 n == Len(log')
             IN  /\ n >= 2
                 /\ log'[n] = LogEntry(envs[i].fn, o, x, envs[i].val)
                 /\ prior.kind = "user"
                       => /\ log' = <<LogEntry(prior.id, o, x, Undefined), log'[n]>>
                          /\ cell' = x
                 /\ (prior.kind = "lset" /\ envs[prior.env].kind \in {"validated", "normalized"})
                       => log'[1] = LogEntry(envs[prior.env].fn, o, x, Undefined)
                 /\ (prior.kind = "lset" /\ envs[prior.env].kind = "triggered")
                       => /\ log'[n - 1] = LogEntry(envs[prior.env].fn, o, x, envs[prior.env].val)
                          /\ envs'[prior.env].val = x]_vars

C24_Witness ==
    /\ last.op = "assign"
    /\ last.val = "FOO"
    /\ Len(envs) = 2
    /\ envs[1].kind = "triggered" /\ envs[1].fn = "change"
    /\ envs[2].kind = "triggered" /\ envs[2].fn = "change2"
    /\ envs[1].dset = setCell
    /\ envs[2].dset = LayerSet(1)
    /\ Lookup(heap, last.target, last.prop).set = LayerSet(2)
    /\ log = <<LogEntry("setCell", last.target, "FOO", Undefined),
               LogEntry("change", last.target, "FOO", "1"),
               LogEntry("change2", last.target, "FOO", "1")>>

\* the objects through which a read or an assignment of slot p reaches
\* the own slot of object t
ReachSlotOf(t, p) ==
    {o \in Objects : Defined(heap[t][p]) /\ Lookup(heap, o, p) = heap[t][p]}

\* C25: derived(target, slot, deriveFn) on an absent or configurable slot
\* raises no error and leaves a slot with getter deriveFn and no setter:
\* every read, through the object or an inheritor, yields what deriveFn
\* computes from the state at that read, and a plain assignment changes
\* nothing and calls no function.
C25_DerivedIsComputedOnEveryRead ==
    (/\ last.op = "derived"
     /\ Defined(last.pre) => last.pre.configurable)
    => (/\ ~last.err
        /\ LastSlot.get = deriveFn
        /\ LastSlot.set = NoFn
        /\ ~IsData(LastSlot)
        /\ LastObject \in ReachSlotOf(LastObject, last.prop)
        /\ \A o \in ReachSlotOf(LastObject, last.prop) :
              /\ \A c \in Values :
                    Get([Store EXCEPT !.cell = c], o, last.prop) = c
              /\ \A w \in InputValues :
                    Put(Store, o, last.prop, w) = Store)

C25_Witness ==
    /\ last.op = "derived"
    /\ last.target = "F"
    /\ IsAccessor(last.pre)
    /\ last.pre.set = setCell
    /\ ~last.err
    /\ LastSlot = AccessorProp(TRUE, FALSE, deriveFn, NoFn)
    /\ "inst" \in ReachSlotOf("Fp", "a")
    /\ Put(Store, "inst", "a", "FOO") = Store
    /\ Get([Store EXCEPT !.cell = "FOO"], "inst", "a") = "FOO"

\* C26: an accessor-pattern definer called on an absent or configurable
\* slot raises no error and leaves an accessor-slot with configurable
\* true and enumerable true for validated and normalized, false for
\* derived, managed and triggered; managed leaves exactly the given
\* getter and setter.
C26_AccessorDefinerFlags ==
    (/\ last.op \in AccessorDefiners
     /\ Defined(last.pre) => last.pre.configurable)
    => (/\ ~last.err
        /\ IsAccessor(LastSlot)
        /\ ~IsData(LastSlot)
        /\ LastSlot.configurable
        /\ LastSlot.enumerable <=> last.op \in {"validated", "normalized"}
        /\ last.op = "managed"
              => (LastSlot.set = setCell /\ LastSlot.get = getCell))

\* descriptor d with the side named by get / set replaced by function f
WithSide(d, op, f) ==
    IF op = "get" THEN [d EXCEPT !.get = f] ELSE [d EXCEPT !.set = f]

\* C27: get / set called on a configurable accessor-slot raise no error
\* and replace only the getter / only the setter: the other function and
\* the two flags stay; called on a slot that neither the target nor its
\* chain has, they raise no error and create an accessor-slot with
\* configurable and enumerable true and only the given function.  Nothing
\* else in the heap changes.
C27_GetSetReplaceOneSide ==
    [][last'.op \in {"get", "set"}
       => LET t == NextObject
              p == last'.prop
              f == UserFn(last'.fns[1])
              d == describe(heap, t, p).desc
          IN  /\ (Defined(d) /\ IsAccessor(d) /\ d.configurable)
                    => /\ ~last'.err
                       /\ heap' = [heap EXCEPT ![t][p] = WithSide(d, last'.op, f)]
              /\ AbsentEverywhere(heap, t, p)
                    => /\ ~last'.err
                       /\ heap' = [heap EXCEPT ![t][p] =
                                      WithSide(AccessorProp(TRUE, TRUE, NoFn, NoFn),
                                               last'.op, f)]]_vars

\* every slot of the heap h has one shape: the fields of a value-slot or
\* the fields of an accessor-slot
OneShape(h) ==
    \A o \in Objects, p \in Slots :
        Defined(h[o][p])
        => \/ h[o][p].has = DataFields /\ h[o][p].get = NoFn /\ h[o][p].set = NoFn
           \/ h[o][p].has = AccessorFields

\* C28: before and after every step every slot is either a value-slot or
\* an accessor-slot, never both; get or set called on a value-slot, and
\* writable called on an accessor-slot, raise an error and change nothing.
C28_SlotsHaveOneShape ==
    [][/\ OneShape(heap)
       /\ OneShape(heap')
       /\ (/\ last'.op \in {"get", "set", "writable"}
           /\ Defined(describe(heap, NextObject, last'.prop).desc)
           /\ MixesShapes(last'.op, describe(heap, NextObject, last'.prop).desc))
             => (last'.err /\ heap' = heap /\ envs' = envs /\ cell' = cell)]_vars

C28_Witness ==
    /\ last.op = "writable"
    /\ last.nargs = 3
    /\ ~last.flag
    /\ last.pre = AccessorProp(TRUE, TRUE, getCell, setCell)
    /\ last.err
    /\ LastSlot = last.pre

\* C29: a library call that raises an error leaves everything as it was
\* before the call: every descriptor and value of every object, every
\* closure of a layering definer with its internal value, and the state
\* of the caller's functions, none of which was called to write.
C29_FailedCallChangesNothing ==
    [][(last'.op \in LibraryOps /\ last'.err)
       => (/\ heap' = heap
           /\ envs' = envs
           /\ cell' = cell
           /\ log' = <<>>)]_vars

C29_Witness ==
    /\ last.op = "triggered"
    /\ last.err
    /\ Defined(last.pre)
    /\ ~last.pre.configurable
    /\ last.pre.enumerable
    /\ LastSlot = last.pre
    /\ envs = <<>>

Instances == {"inst", "inst2"}

\* the value the setter of closure i accepts when x is assigned: x itself,
\* what the normalizer makes of x, or nothing (the validator refuses x)
AcceptedValue(i, x) ==
    CASE envs[i].kind = "validated" ->
            IF Validate(envs[i].fn, x) = "true" THEN <<x>> ELSE <<>>
      [] envs[i].kind = "normalized" -> <<Normalize(envs[i].fn, x)>>
      [] OTHER -> <<x>>

\* C30: after validated, normalized or triggered on a constructor target,
\* a plain assignment through an instance creates no own slot on that
\* instance, and the value the setter accepts is then the value a read
\* yields through every instance that has no own slot of that name.
C30_InstancesShareTheValue ==
    [][\A i \in 1..Len(envs), o \in Instances :
          (/\ world = "ctor"
           /\ last'.op = "assign"
           /\ last'.target = o
           /\ Lookup(heap, o, last'.prop).set = LayerSet(i))
          => (/\ ~Defined(heap'[o][last'.prop])
              /\ heap' = heap
              /\ \A other \in Instances :
                    (~Defined(heap'[other][last'.prop]) /\ AcceptedValue(i, last'.val) # <<>>)
                    => Get(StoreAfter, other, last'.prop)
                          = AcceptedValue(i, last'.val)[1])]_vars

====
